---- MODULE Spec2Model ----
(***************************************************************************)
(* The MACI contract deployment script (deploy.ts: main, deployMaci and    *)
(* the per-contract deploy helpers) and the CLI command                    *)
(* deployVkRegistryContract as a state machine.  One run of a program is   *)
(* one behaviour: the command line, the configuration, the files found on  *)
(* disk and the outcome of every deployment are chosen                     *)
(* nondeterministically.                                                   *)
(***************************************************************************)
EXTENDS Integers, Sequences, FiniteSets, TLC

(***************************************************************************)
(* Bounds of the model.                                                    *)
(***************************************************************************)
\* Tree depths range over 0..SmallDepth and (MaxDepth - 2)..MaxDepth.
SmallDepth == 2
MaxDepth == 55

SmallDepths == 0..SmallDepth
LargeDepths == (MaxDepth - 2)..MaxDepth
Depths == SmallDepths \cup LargeDepths

\* JavaScript's undefined (an absent command-line flag or parameter).
Undefined == "undefined"

\* Addresses a caller can pass with -s / -p; "" is what `-s ""` yields.
OverrideAddresses == {"0xaa", "0xbb"}
ArgValues == {Undefined, ""} \cup OverrideAddresses

\* Addresses the chain hands out, by deployer nonce.
AddressPool ==
    <<"0xc0", "0xc1", "0xc2", "0xc3", "0xc4", "0xc5", "0xc6", "0xc7",
      "0xc8", "0xc9", "0xca", "0xcb", "0xcc", "0xcd", "0xce", "0xcf">>
InitialNonces == {0, 1}
ChainAddress(n) == AddressPool[n + 1]
DeployedAddresses == {AddressPool[i] : i \in 1..Len(AddressPool)}

\* config.maci.coordinatorPrivKey
PrivKeys == {3, 8}

(***************************************************************************)
(* JavaScript values: truthiness, numbers and big integers.                *)
(***************************************************************************)
\* if (x): undefined and the empty string are falsy, any other string
\* (and any object) is truthy.
Truthy(v) == v # Undefined /\ v # ""

DigitChar == <<"0", "1", "2", "3", "4", "5", "6", "7", "8", "9">>

\* Number.prototype.toString / BigInt.prototype.toString of a small natural.
RECURSIVE NatToString(_)
NatToString(n) ==
    IF n < 10 THEN DigitChar[n + 1]
    ELSE NatToString(n \div 10) \o DigitChar[(n % 10) + 1]

\* Big integers are little-endian bit sequences without high zero bits;
\* zero is the empty sequence.
RECURSIVE StripHighZeros(_)
StripHighZeros(bits) ==
    IF bits = <<>> THEN <<>>
    ELSE IF bits[Len(bits)] = 0 THEN StripHighZeros(SubSeq(bits, 1, Len(bits) - 1))
    ELSE bits

\* bigInt(2).pow(bigInt(d)) for d >= 0
BigPow2(d) == [i \in 1..(d + 1) |-> IF i = d + 1 THEN 1 ELSE 0]

BigOne == <<1>>

\* a + 1
RECURSIVE BitsInc(_)
BitsInc(bits) ==
    IF bits = <<>> THEN <<1>>
    ELSE IF Head(bits) = 0 THEN <<1>> \o Tail(bits)
    ELSE <<0>> \o BitsInc(Tail(bits))

\* a - 1 for a > 0, before normalisation
RECURSIVE BitsDec(_)
BitsDec(bits) ==
    IF Head(bits) = 1 THEN <<0>> \o Tail(bits)
    ELSE <<1>> \o BitsDec(Tail(bits))

\* Exact integer subtraction a - b for the operands the script uses
\* (a >= 1, b = 1).
ExactSub(a, b) == IF b = BigOne THEN StripHighZeros(BitsDec(a)) ELSE a

\* Significand width of a JavaScript Number (IEEE-754 double).
MantissaBits == 53

\* The Number nearest to an integer: the top MantissaBits bits are kept and
\* the rest is rounded to nearest, ties to even.
ToNumber(bits) ==
    IF Len(bits) <= MantissaBits THEN bits
    ELSE LET drop   == Len(bits) - MantissaBits
             kept   == SubSeq(bits, drop + 1, Len(bits))
             guard  == bits[drop]
             sticky == \E i \in 1..(drop - 1) : bits[i] = 1
             up     == guard = 1 /\ (sticky \/ kept[1] = 1)
         IN  [i \in 1..drop |-> 0] \o (IF up THEN BitsInc(kept) ELSE kept)

\* Decimal digits, little-endian: 2 * ds + c
RECURSIVE DecDoubleAdd(_, _)
DecDoubleAdd(ds, c) ==
    IF ds = <<>> THEN (IF c = 0 THEN <<>> ELSE <<c>>)
    ELSE LET v == 2 * Head(ds) + c
         IN  <<v % 10>> \o DecDoubleAdd(Tail(ds), v \div 10)

\* The decimal digits (little-endian) of a bit sequence, most significant
\* bit first.
RECURSIVE BitsToDecimal(_)
BitsToDecimal(bits) ==
    IF bits = <<>> THEN <<>>
    ELSE DecDoubleAdd(BitsToDecimal(Tail(bits)), Head(bits))

RECURSIVE DigitsToString(_)
DigitsToString(ds) ==
    IF ds = <<>> THEN ""
    ELSE DigitsToString(Tail(ds)) \o DigitChar[Head(ds) + 1]

\* x.toString() of an integer below 10^21 (plain decimal notation both for
\* a BigInt and for a Number).
IntToString(bits) == IF bits = <<>> THEN "0" ELSE DigitsToString(BitsToDecimal(bits))

\* The binary operator `a - b` on two bigInt values.  JavaScript has no
\* operator overloading: both operands go through ToNumeric.  When bigInt
\* values are native BigInts the subtraction is exact; when they are
\* big-integer objects (the fallback of the bigInt wrapper on a runtime
\* without BigInt) valueOf() turns each operand into a Number and the
\* result is the Number nearest to the difference.
MinusOperator(a, b, native) ==
    IF native THEN ExactSub(a, b)
    ELSE ToNumber(ExactSub(ToNumber(a), ToNumber(b)))

\* (bigInt(2).pow(bigInt(depth)) - bigInt(1)).toString()
Capacity(depth, native) == IntToString(MinusOperator(BigPow2(depth), BigOne, native))

\* genPubKey of maci-crypto: a deterministic map from a private key to a
\* pair of field elements.
GenPubKey(priv) == <<(priv * priv + 3) % 97, (7 * priv + 5) % 97>>

\* new PubKey(p)
NewPubKey(p) == [rawPubKey |-> p]

\* Public keys a caller of deployMaci can pass.
SuppliedPubKeys == {NewPubKey(<<11, 22>>)}

\* The value of an optional PubKey parameter that was not passed.
UndefinedPubKey == [rawPubKey |-> <<>>]

\* The output file before main has written it.
NoFile == [written |-> FALSE]

\* A JSON file of the address store: whether it exists and, when it does,
\* the <<name, address>> entries of the object it holds.
Absent == [exists |-> FALSE, json |-> {}]
StoreFile(entries) == [exists |-> TRUE, json |-> entries]

\* What deployVkRegistryContract can find at contractAddressesStore and at
\* oldContractAddressesStore when it starts.
PriorStores ==
    {Absent, StoreFile({}), StoreFile({<<"VkRegistry", "0xaa">>}),
     StoreFile({<<"VkRegistry", "0xaa">>, <<"MACI", "0xbb">>})}
PriorArchives == {Absent, StoreFile({<<"VkRegistry", "0xbb">>})}

(***************************************************************************)
(* State.                                                                  *)
(***************************************************************************)
VARIABLES
    pc,                                \* position of the running script
    entry,                             \* "main" (the script) or "deployMaci" (the exported function)
    args,                              \* parser.parseArgs(): signUpToken, initialVoiceCreditProxy
    config,                            \* config.maci
    nativeBigInt,                      \* whether bigInt values are native BigInts on this runtime
    coordinatorPublicKey,              \* module-level constant
    nonce,                             \* the deployer account's nonce
    deployments,                       \* every deployer.deploy call of the run, in order
    signUpTokenAddress,                \* locals of main
    initialVoiceCreditBalanceAddress,
    signUpTokenGatekeeperContract,
    params,                            \* parameters of deployMaci
    coordinatorPubKey,                 \* locals of deployMaci
    mimcContract,
    batchUstVerifierContract,
    quadVoteTallyVerifierContract,
    maxUsers,
    maxMessages,
    maciContract,
    outputFile,                        \* the file at addressJsonPath
    exitCode,                          \* exit code of the script's process, once it has exited
    earlier,                           \* the deployments of the run before a re-invocation
    contractAddressesStore,            \* the file at contractAddressesStore
    oldContractAddressesStore,         \* the file at oldContractAddressesStore
    vkRegistry,                        \* local of deployVkRegistryContract
    priorStore                         \* the store file as the command found it

vars == <<pc, entry, args, config, nativeBigInt, coordinatorPublicKey, nonce,
          deployments, signUpTokenAddress, initialVoiceCreditBalanceAddress,
          signUpTokenGatekeeperContract, params, coordinatorPubKey, mimcContract,
          batchUstVerifierContract, quadVoteTallyVerifierContract, maxUsers,
          maxMessages, maciContract, outputFile, exitCode, earlier,
          contractAddressesStore, oldContractAddressesStore, vkRegistry, priorStore>>

process == <<exitCode, earlier>>
store == <<contractAddressesStore, oldContractAddressesStore, vkRegistry>>
inputs == <<entry, args, config, nativeBigInt, coordinatorPublicKey, priorStore>>
mainLocals == <<signUpTokenAddress, initialVoiceCreditBalanceAddress,
                signUpTokenGatekeeperContract>>
maciLocals == <<coordinatorPubKey, mimcContract, batchUstVerifierContract,
                quadVoteTallyVerifierContract, maxUsers, maxMessages, maciContract>>

Configs ==
    [stateTreeDepth : Depths, messageTreeDepth : Depths, voteOptionTreeDepth : {2},
     quadVoteTallyBatchSize : {4}, messageBatchSize : {4}, voteOptionsMaxLeafIndex : {3},
     signUpDurationInSeconds : {3600}, votingDurationInSeconds : {3600},
     initialVoiceCreditBalance : {100}, coordinatorPrivKey : PrivKeys]

\* The parameters of deployMaci that were not passed, as main leaves them.
NoParams ==
    [signUpGatekeeperAddress |-> Undefined, initialVoiceCreditProxy |-> Undefined,
     stateTreeDepth |-> 0, messageTreeDepth |-> 0, coordinatorPubKey |-> UndefinedPubKey]

\* What a direct caller of the exported deployMaci can pass.
DirectParams ==
    [signUpGatekeeperAddress : OverrideAddresses, initialVoiceCreditProxy : OverrideAddresses,
     stateTreeDepth : Depths, messageTreeDepth : Depths,
     coordinatorPubKey : {UndefinedPubKey} \cup SuppliedPubKeys]

NoArgs == [signUpToken |-> Undefined, initialVoiceCreditProxy |-> Undefined]

Init ==
    /\ entry \in {"main", "deployMaci", "deployVkRegistryContract"}
    /\ config \in Configs
    /\ nativeBigInt \in BOOLEAN
    /\ nonce \in InitialNonces
    /\ coordinatorPublicKey = GenPubKey(config.coordinatorPrivKey)
    /\ CASE entry = "main" ->
            /\ args \in [signUpToken : ArgValues, initialVoiceCreditProxy : ArgValues]
            /\ params = NoParams
            /\ pc = "main"
         [] entry = "deployMaci" ->
            /\ args = NoArgs
            /\ params \in DirectParams
            \* the configured depths are not read when both are passed
            /\ config.stateTreeDepth = params.stateTreeDepth
            /\ config.messageTreeDepth = params.messageTreeDepth
            /\ pc = "deployMaci"
         [] entry = "deployVkRegistryContract" ->
            /\ args = NoArgs
            /\ params = NoParams
            \* the command reads neither the depths nor bigInt
            /\ config.stateTreeDepth = 0
            /\ config.messageTreeDepth = 0
            /\ nativeBigInt
            /\ pc = "deployVkRegistryContract"
    /\ IF entry = "deployVkRegistryContract"
       THEN /\ contractAddressesStore \in PriorStores
            /\ oldContractAddressesStore \in PriorArchives
       ELSE /\ contractAddressesStore = Absent
            /\ oldContractAddressesStore = Absent
    /\ priorStore = contractAddressesStore
    /\ vkRegistry = Undefined
    /\ exitCode = Undefined
    /\ earlier = <<>>
    /\ deployments = <<>>
    /\ signUpTokenAddress = Undefined
    /\ initialVoiceCreditBalanceAddress = Undefined
    /\ signUpTokenGatekeeperContract = Undefined
    /\ coordinatorPubKey = UndefinedPubKey
    /\ mimcContract = Undefined
    /\ batchUstVerifierContract = Undefined
    /\ quadVoteTallyVerifierContract = Undefined
    /\ maxUsers = Undefined
    /\ maxMessages = Undefined
    /\ maciContract = Undefined
    /\ outputFile = NoFile

(***************************************************************************)
(* deployer.deploy: a call is issued, stays pending while the transaction  *)
(* is awaited, and then either confirms with a contract address or throws. *)
(***************************************************************************)
Last == deployments[Len(deployments)]

Pending == deployments # <<>> /\ Last.status = "pending"

\* deployer.deploy(artifact, libraries, ...ctorArgs) is called at `from`
Call(from, artifact, libraries, ctorArgs, await) ==
    /\ pc = from
    /\ deployments' = Append(deployments,
          [artifact |-> artifact, libraries |-> libraries, args |-> ctorArgs,
           status |-> "pending", contractAddress |-> Undefined])
    /\ pc' = await
    /\ UNCHANGED nonce

\* the awaited deploy resolves with a contract
Resolve(await, next) ==
    /\ pc = await
    /\ Pending
    /\ deployments' = [deployments EXCEPT ![Len(deployments)] =
          [@ EXCEPT !.status = "confirmed", !.contractAddress = ChainAddress(nonce)]]
    /\ nonce' = nonce + 1
    /\ pc' = next

AwaitPositions ==
    {"deploySignupToken", "deployConstantInitialVoiceCreditProxy",
     "deploySignupTokenGatekeeper", "deployMiMC", "deployBatchUpdateStateTreeVerifier",
     "deployQuadVoteTallyVerifier", "deployMACI"}

\* Mutant: a failed deploy is retried once instead of rejecting the run.
DeployRejects_Retry ==
    /\ pc \in AwaitPositions
    /\ Pending
    /\ IF Cardinality({i \in 1..Len(deployments) :
                          deployments[i].artifact = Last.artifact}) < 2
       THEN /\ deployments' = Append(
                   [deployments EXCEPT ![Len(deployments)].status = "failed"], Last)
            /\ pc' = pc
       ELSE /\ deployments' = [deployments EXCEPT ![Len(deployments)].status = "failed"]
            /\ pc' = "rejected"
    /\ UNCHANGED <<inputs, process, store, nonce, mainLocals, params, maciLocals, outputFile>>

\* The awaited deploy throws.  Neither the helper, nor deployMaci, nor main
\* catches it: the promise returned by main is rejected and nothing after
\* the await runs.
DeployRejects ==
    /\ pc \in AwaitPositions
    /\ Pending
    /\ deployments' = [deployments EXCEPT ![Len(deployments)].status = "failed"]
    /\ pc' = "rejected"
    /\ UNCHANGED <<inputs, process, store, nonce, mainLocals, params, maciLocals, outputFile>>

(***************************************************************************)
(* main                                                                    *)
(***************************************************************************)
\* Mutant: the token deployment is not awaited.
main_signUpToken_NoAwait ==
    /\ pc = "main"
    /\ IF Truthy(args.signUpToken)
       THEN /\ signUpTokenAddress' = args.signUpToken
            /\ pc' = "main_initialVoiceCreditProxy"
            /\ UNCHANGED <<deployments, nonce>>
       ELSE /\ Call("main", "SignUpToken", <<>>, <<>>, "main_initialVoiceCreditProxy")
            /\ UNCHANGED signUpTokenAddress
    /\ UNCHANGED <<inputs, process, store, initialVoiceCreditBalanceAddress,
                   signUpTokenGatekeeperContract, params, maciLocals, outputFile>>

\* if (signUpToken) { signUpTokenAddress = signUpToken }
\* else { ... await deploySignupToken(deployer) }
main_signUpToken ==
    /\ pc = "main"
    /\ IF Truthy(args.signUpToken)
       THEN /\ signUpTokenAddress' = args.signUpToken
            /\ pc' = "main_initialVoiceCreditProxy"
            /\ UNCHANGED <<deployments, nonce>>
       ELSE /\ Call("main", "SignUpToken", <<>>, <<>>, "deploySignupToken")
            /\ UNCHANGED signUpTokenAddress
    /\ UNCHANGED <<inputs, process, store, initialVoiceCreditBalanceAddress, signUpTokenGatekeeperContract,
                   params, maciLocals, outputFile>>

\* signUpTokenAddress = signUpTokenContract.contractAddress
deploySignupToken ==
    /\ Resolve("deploySignupToken", "main_initialVoiceCreditProxy")
    /\ signUpTokenAddress' = ChainAddress(nonce)
    /\ UNCHANGED <<inputs, process, store, initialVoiceCreditBalanceAddress, signUpTokenGatekeeperContract,
                   params, maciLocals, outputFile>>

\* Mutant: the proxy slot is resolved on the token flag.
main_initialVoiceCreditProxy_TokenFlag ==
    /\ pc = "main_initialVoiceCreditProxy"
    /\ IF Truthy(args.signUpToken)
       THEN /\ initialVoiceCreditBalanceAddress' = args.initialVoiceCreditProxy
            /\ pc' = "main_signUpTokenGatekeeper"
            /\ UNCHANGED <<deployments, nonce>>
       ELSE /\ Call("main_initialVoiceCreditProxy", "ConstantInitialVoiceCreditProxy", <<>>,
                    <<config.initialVoiceCreditBalance>>, "deployConstantInitialVoiceCreditProxy")
            /\ UNCHANGED initialVoiceCreditBalanceAddress
    /\ UNCHANGED <<inputs, process, store, signUpTokenAddress, signUpTokenGatekeeperContract,
                   params, maciLocals, outputFile>>

\* if (initialVoiceCreditProxy) { initialVoiceCreditBalanceAddress = initialVoiceCreditProxy }
\* else { ... await deployConstantInitialVoiceCreditProxy(deployer, balance) }
main_initialVoiceCreditProxy ==
    /\ pc = "main_initialVoiceCreditProxy"
    /\ IF Truthy(args.initialVoiceCreditProxy)
       THEN /\ initialVoiceCreditBalanceAddress' = args.initialVoiceCreditProxy
            /\ pc' = "main_signUpTokenGatekeeper"
            /\ UNCHANGED <<deployments, nonce>>
       ELSE /\ Call("main_initialVoiceCreditProxy", "ConstantInitialVoiceCreditProxy", <<>>,
                    <<config.initialVoiceCreditBalance>>, "deployConstantInitialVoiceCreditProxy")
            /\ UNCHANGED initialVoiceCreditBalanceAddress
    /\ UNCHANGED <<inputs, process, store, signUpTokenAddress, signUpTokenGatekeeperContract,
                   params, maciLocals, outputFile>>

\* initialVoiceCreditBalanceAddress = initialVoiceCreditProxyContract.contractAddress
deployConstantInitialVoiceCreditProxy ==
    /\ Resolve("deployConstantInitialVoiceCreditProxy", "main_signUpTokenGatekeeper")
    /\ initialVoiceCreditBalanceAddress' = ChainAddress(nonce)
    /\ UNCHANGED <<inputs, process, store, signUpTokenAddress, signUpTokenGatekeeperContract,
                   params, maciLocals, outputFile>>

\* Mutant: the gatekeeper deployment is not awaited.
main_signUpTokenGatekeeper_NoAwait ==
    /\ Call("main_signUpTokenGatekeeper", "SignUpTokenGatekeeper", <<>>,
            <<signUpTokenAddress>>, "main_deployMaci")
    /\ UNCHANGED <<inputs, process, store, mainLocals, params, maciLocals, outputFile>>

\* deploySignupTokenGatekeeper(deployer, signUpTokenAddress)
main_signUpTokenGatekeeper ==
    /\ Call("main_signUpTokenGatekeeper", "SignUpTokenGatekeeper", <<>>,
            <<signUpTokenAddress>>, "deploySignupTokenGatekeeper")
    /\ UNCHANGED <<inputs, process, store, mainLocals, params, maciLocals, outputFile>>

\* const signUpTokenGatekeeperContract = await deploySignupTokenGatekeeper(...)
deploySignupTokenGatekeeper ==
    /\ Resolve("deploySignupTokenGatekeeper", "main_deployMaci")
    /\ signUpTokenGatekeeperContract' = ChainAddress(nonce)
    /\ UNCHANGED <<inputs, process, store, signUpTokenAddress, initialVoiceCreditBalanceAddress,
                   params, maciLocals, outputFile>>

\* deployMaci(deployer, signUpTokenGatekeeperContract.contractAddress,
\*            initialVoiceCreditBalanceAddress): every other parameter takes
\* its default, the depths from config.maci.merkleTrees.
main_deployMaci ==
    /\ pc = "main_deployMaci"
    /\ params' = [signUpGatekeeperAddress |-> signUpTokenGatekeeperContract,
                  initialVoiceCreditProxy |-> initialVoiceCreditBalanceAddress,
                  stateTreeDepth          |-> config.stateTreeDepth,
                  messageTreeDepth        |-> config.messageTreeDepth,
                  coordinatorPubKey       |-> UndefinedPubKey]
    /\ pc' = "deployMaci"
    /\ UNCHANGED <<inputs, process, store, nonce, deployments, mainLocals, maciLocals, outputFile>>

\* const addresses = { MiMC, BatchUpdateStateTreeVerifier,
\* QuadraticVoteTallyVerifier, MACI }; fs.writeFileSync(addressJsonPath,
\* JSON.stringify(addresses))
main_writeAddresses ==
    /\ pc = "main_addresses"
    /\ outputFile' = [MiMC                         |-> mimcContract,
                      BatchUpdateStateTreeVerifier |-> batchUstVerifierContract,
                      QuadraticVoteTallyVerifier   |-> quadVoteTallyVerifierContract,
                      MACI                         |-> maciContract]
    /\ pc' = "done"
    /\ UNCHANGED <<inputs, process, store, nonce, deployments, mainLocals, params, maciLocals>>

(***************************************************************************)
(* deployMaci                                                              *)
(***************************************************************************)
\* Mutant: the key is derived from the private key even when one is passed.
deployMaci_coordinatorPubKey_AlwaysDerived ==
    /\ pc = "deployMaci"
    /\ coordinatorPubKey' = NewPubKey(GenPubKey(config.coordinatorPrivKey))
    /\ pc' = "deployMaci_MiMC"
    /\ UNCHANGED <<inputs, process, store, nonce, deployments, mainLocals, params, mimcContract,
                   batchUstVerifierContract, quadVoteTallyVerifierContract, maxUsers,
                   maxMessages, maciContract, outputFile>>

\* if (!coordinatorPubKey) { coordinatorPubKey = new PubKey(genPubKey(...)) }
deployMaci_coordinatorPubKey ==
    /\ pc = "deployMaci"
    /\ coordinatorPubKey' =
          IF params.coordinatorPubKey = UndefinedPubKey
          THEN NewPubKey(GenPubKey(config.coordinatorPrivKey))
          ELSE params.coordinatorPubKey
    /\ pc' = "deployMaci_MiMC"
    /\ UNCHANGED <<inputs, process, store, nonce, deployments, mainLocals, params, mimcContract,
                   batchUstVerifierContract, quadVoteTallyVerifierContract, maxUsers,
                   maxMessages, maciContract, outputFile>>

\* deployer.deploy(MiMC, {})
deployMaci_MiMC ==
    /\ Call("deployMaci_MiMC", "MiMC", <<>>, <<>>, "deployMiMC")
    /\ UNCHANGED <<inputs, process, store, mainLocals, params, maciLocals, outputFile>>

\* const mimcContract = await ...
deployMiMC ==
    /\ Resolve("deployMiMC", "deployMaci_BatchUpdateStateTreeVerifier")
    /\ mimcContract' = ChainAddress(nonce)
    /\ UNCHANGED <<inputs, process, store, mainLocals, params, coordinatorPubKey, batchUstVerifierContract,
                   quadVoteTallyVerifierContract, maxUsers, maxMessages, maciContract,
                   outputFile>>

\* deployer.deploy(BatchUpdateStateTreeVerifier, {})
deployMaci_BatchUpdateStateTreeVerifier ==
    /\ Call("deployMaci_BatchUpdateStateTreeVerifier", "BatchUpdateStateTreeVerifier",
            <<>>, <<>>, "deployBatchUpdateStateTreeVerifier")
    /\ UNCHANGED <<inputs, process, store, mainLocals, params, maciLocals, outputFile>>

\* const batchUstVerifierContract = await ...
deployBatchUpdateStateTreeVerifier ==
    /\ Resolve("deployBatchUpdateStateTreeVerifier", "deployMaci_QuadVoteTallyVerifier")
    /\ batchUstVerifierContract' = ChainAddress(nonce)
    /\ UNCHANGED <<inputs, process, store, mainLocals, params, coordinatorPubKey, mimcContract,
                   quadVoteTallyVerifierContract, maxUsers, maxMessages, maciContract,
                   outputFile>>

\* deployer.deploy(QuadVoteTallyVerifier, {})
deployMaci_QuadVoteTallyVerifier ==
    /\ Call("deployMaci_QuadVoteTallyVerifier", "QuadVoteTallyVerifier",
            <<>>, <<>>, "deployQuadVoteTallyVerifier")
    /\ UNCHANGED <<inputs, process, store, mainLocals, params, maciLocals, outputFile>>

\* const quadVoteTallyVerifierContract = await ...
deployQuadVoteTallyVerifier ==
    /\ Resolve("deployQuadVoteTallyVerifier", "deployMaci_maxValues")
    /\ quadVoteTallyVerifierContract' = ChainAddress(nonce)
    /\ UNCHANGED <<inputs, process, store, mainLocals, params, coordinatorPubKey, mimcContract,
                   batchUstVerifierContract, maxUsers, maxMessages, maciContract,
                   outputFile>>

\* const maxUsers = (bigInt(2).pow(bigInt(stateTreeDepth)) - bigInt(1)).toString()
\* const maxMessages = (bigInt(2).pow(bigInt(messageTreeDepth)) - bigInt(1)).toString()
deployMaci_maxValues ==
    /\ pc = "deployMaci_maxValues"
    /\ maxUsers' = Capacity(params.stateTreeDepth, nativeBigInt)
    /\ maxMessages' = Capacity(params.messageTreeDepth, nativeBigInt)
    /\ pc' = "deployMaci_MACI"
    /\ UNCHANGED <<inputs, process, store, nonce, deployments, mainLocals, params, coordinatorPubKey,
                   mimcContract, batchUstVerifierContract, quadVoteTallyVerifierContract,
                   maciContract, outputFile>>

\* Mutant: the two verifier addresses change places.
MaciConstructorArgs_VerifiersSwapped ==
    <<[stateTreeDepth      |-> params.stateTreeDepth,
       messageTreeDepth    |-> params.messageTreeDepth,
       voteOptionTreeDepth |-> config.voteOptionTreeDepth],
      [tallyBatchSize   |-> config.quadVoteTallyBatchSize,
       messageBatchSize |-> config.messageBatchSize],
      [maxUsers       |-> maxUsers,
       maxMessages    |-> maxMessages,
       maxVoteOptions |-> config.voteOptionsMaxLeafIndex],
      params.signUpGatekeeperAddress,
      quadVoteTallyVerifierContract,
      batchUstVerifierContract,
      config.signUpDurationInSeconds,
      config.votingDurationInSeconds,
      params.initialVoiceCreditProxy,
      [x |-> NatToString(coordinatorPubKey.rawPubKey[1]),
       y |-> NatToString(coordinatorPubKey.rawPubKey[2])]>>

\* The constructor arguments of MACI, in the order of the deploy call.
MaciConstructorArgs ==
    <<[stateTreeDepth      |-> params.stateTreeDepth,
       messageTreeDepth    |-> params.messageTreeDepth,
       voteOptionTreeDepth |-> config.voteOptionTreeDepth],
      [tallyBatchSize   |-> config.quadVoteTallyBatchSize,
       messageBatchSize |-> config.messageBatchSize],
      [maxUsers       |-> maxUsers,
       maxMessages    |-> maxMessages,
       maxVoteOptions |-> config.voteOptionsMaxLeafIndex],
      params.signUpGatekeeperAddress,
      batchUstVerifierContract,
      quadVoteTallyVerifierContract,
      config.signUpDurationInSeconds,
      config.votingDurationInSeconds,
      params.initialVoiceCreditProxy,
      [x |-> NatToString(coordinatorPubKey.rawPubKey[1]),
       y |-> NatToString(coordinatorPubKey.rawPubKey[2])]>>

\* deployer.deploy(MACI, { MiMC: mimcContract.contractAddress }, ...)
deployMaci_MACI ==
    /\ Call("deployMaci_MACI", "MACI", [MiMC |-> mimcContract], MaciConstructorArgs,
            "deployMACI")
    /\ UNCHANGED <<inputs, process, store, mainLocals, params, maciLocals, outputFile>>

\* const maciContract = await ...; return { ... }
deployMACI ==
    /\ Resolve("deployMACI", IF entry = "main" THEN "main_addresses" ELSE "returned")
    /\ maciContract' = ChainAddress(nonce)
    /\ UNCHANGED <<inputs, process, store, mainLocals, params, coordinatorPubKey, mimcContract,
                   batchUstVerifierContract, quadVoteTallyVerifierContract, maxUsers,
                   maxMessages, outputFile>>

(***************************************************************************)
(* The script's process: if (require.main === module) { try { main() }     *)
(* catch (err) { console.error(err) } }                                    *)
(***************************************************************************)
\* main() returns a promise and is not awaited, so the catch block never
\* sees a failed deployment: the rejection is unhandled.  The runtime
\* decides what an unhandled rejection does to the process: it warns and
\* the process exits with code 0, or it raises and the process exits with
\* code 1.  A run that completes exits with code 0.
processExit ==
    /\ entry = "main"
    /\ pc \in {"done", "rejected"}
    /\ exitCode' \in (IF pc = "done" THEN {0} ELSE {0, 1})
    /\ pc' = "exited"
    /\ UNCHANGED <<inputs, earlier, store, nonce, deployments, mainLocals, params,
                   maciLocals, outputFile>>

\* The caller runs the script again after a failed run, passing with -s and
\* -p the token and proxy addresses the failed run ended with; these two
\* flags are the only overrides the parser defines.
reinvoke ==
    /\ entry = "main"
    /\ pc = "exited"
    /\ deployments # <<>>
    /\ Last.status = "failed"
    /\ earlier = <<>>
    /\ earlier' = deployments
    /\ args' = [signUpToken |->
                    IF Truthy(signUpTokenAddress) THEN signUpTokenAddress
                    ELSE args.signUpToken,
                initialVoiceCreditProxy |->
                    IF Truthy(initialVoiceCreditBalanceAddress)
                    THEN initialVoiceCreditBalanceAddress
                    ELSE args.initialVoiceCreditProxy]
    /\ deployments' = <<>>
    /\ signUpTokenAddress' = Undefined
    /\ initialVoiceCreditBalanceAddress' = Undefined
    /\ signUpTokenGatekeeperContract' = Undefined
    /\ params' = NoParams
    /\ coordinatorPubKey' = UndefinedPubKey
    /\ mimcContract' = Undefined
    /\ batchUstVerifierContract' = Undefined
    /\ quadVoteTallyVerifierContract' = Undefined
    /\ maxUsers' = Undefined
    /\ maxMessages' = Undefined
    /\ maciContract' = Undefined
    /\ exitCode' = Undefined
    /\ pc' = "main"
    /\ UNCHANGED <<entry, config, nativeBigInt, coordinatorPublicKey, priorStore, store,
                   nonce, outputFile>>

(***************************************************************************)
(* The address store (utils/storage) and deployVkRegistryContract          *)
(***************************************************************************)
\* resetContractAddresses(): the store file holds the empty object
ResetContractAddresses == StoreFile({})

\* storeContractAddress(name, address): the entry of that name is set in
\* the object read from the store file and the file is written back
StoreContractAddress(file, name, address) ==
    StoreFile({e \in file.json : e[1] # name} \cup {<<name, address>>})

deployVkRegistryLocals == <<nonce, deployments, vkRegistry>>
deployScript == <<inputs, process, mainLocals, params, maciLocals, outputFile>>

\* Mutant: the store is copied to the archive and left as it is.
deployVkRegistryContract_reset_Copy ==
    /\ pc = "deployVkRegistryContract"
    /\ IF contractAddressesStore.exists
       THEN /\ oldContractAddressesStore' = contractAddressesStore
            /\ contractAddressesStore' = contractAddressesStore
            /\ pc' = "deployVkRegistryContract_deploy"
       ELSE /\ pc' = "rejected"
            /\ UNCHANGED <<contractAddressesStore, oldContractAddressesStore>>
    /\ UNCHANGED <<deployScript, deployVkRegistryLocals>>

\* renameSync(contractAddressesStore, oldContractAddressesStore);
\* resetContractAddresses()
\* renameSync throws ENOENT when there is no file at the source path, and
\* replaces whatever file is at the destination path.
deployVkRegistryContract_reset ==
    /\ pc = "deployVkRegistryContract"
    /\ IF contractAddressesStore.exists
       THEN /\ oldContractAddressesStore' = contractAddressesStore
            /\ contractAddressesStore' = ResetContractAddresses
            /\ pc' = "deployVkRegistryContract_deploy"
       ELSE /\ pc' = "rejected"
            /\ UNCHANGED <<contractAddressesStore, oldContractAddressesStore>>
    /\ UNCHANGED <<deployScript, deployVkRegistryLocals>>

\* deployVkRegistry(true) is called
deployVkRegistryContract_deploy ==
    /\ Call("deployVkRegistryContract_deploy", "VkRegistry", <<>>, <<>>, "deployVkRegistry")
    /\ UNCHANGED <<deployScript, contractAddressesStore, oldContractAddressesStore,
                   vkRegistry>>

\* Mutant: the address is stored as soon as the contract object is returned.
deployVkRegistry_StoresEarly ==
    /\ pc = "deployVkRegistry"
    /\ Pending
    /\ deployments' = [deployments EXCEPT ![Len(deployments)] =
          [@ EXCEPT !.status = "submitted", !.contractAddress = ChainAddress(nonce)]]
    /\ vkRegistry' = ChainAddress(nonce)
    /\ contractAddressesStore' =
          StoreContractAddress(contractAddressesStore, "VkRegistry", ChainAddress(nonce))
    /\ pc' = "deployTransaction_wait"
    /\ UNCHANGED <<deployScript, nonce, oldContractAddressesStore>>

\* const vkRegistry = await deployVkRegistry(true): the transaction is sent
\* and the contract object, with its address, is returned
deployVkRegistry ==
    /\ pc = "deployVkRegistry"
    /\ Pending
    /\ deployments' = [deployments EXCEPT ![Len(deployments)] =
          [@ EXCEPT !.status = "submitted", !.contractAddress = ChainAddress(nonce)]]
    /\ vkRegistry' = ChainAddress(nonce)
    /\ pc' = "deployTransaction_wait"
    /\ UNCHANGED <<deployScript, nonce, contractAddressesStore, oldContractAddressesStore>>

\* await vkRegistry.deployTransaction.wait(): the transaction confirms
deployTransaction_wait ==
    /\ pc = "deployTransaction_wait"
    /\ deployments' = [deployments EXCEPT ![Len(deployments)].status = "confirmed"]
    /\ nonce' = nonce + 1
    /\ pc' = "deployVkRegistryContract_store"
    /\ UNCHANGED <<deployScript, contractAddressesStore, oldContractAddressesStore,
                   vkRegistry>>

\* deployVkRegistry or deployTransaction.wait() throws: the command's
\* promise is rejected
deployVkRegistry_rejects ==
    /\ pc \in {"deployVkRegistry", "deployTransaction_wait"}
    /\ deployments' = [deployments EXCEPT ![Len(deployments)].status = "failed"]
    /\ pc' = "rejected"
    /\ UNCHANGED <<deployScript, nonce, contractAddressesStore, oldContractAddressesStore,
                   vkRegistry>>

\* storeContractAddress("VkRegistry", vkRegistry.address)
deployVkRegistryContract_store ==
    /\ pc = "deployVkRegistryContract_store"
    /\ contractAddressesStore' =
          StoreContractAddress(contractAddressesStore, "VkRegistry", vkRegistry)
    /\ pc' = "returned"
    /\ UNCHANGED <<deployScript, deployVkRegistryLocals, oldContractAddressesStore>>

Next ==
    \/ main_signUpToken
    \/ deploySignupToken
    \/ main_initialVoiceCreditProxy
    \/ deployConstantInitialVoiceCreditProxy
    \/ main_signUpTokenGatekeeper
    \/ deploySignupTokenGatekeeper
    \/ main_deployMaci
    \/ deployMaci_coordinatorPubKey
    \/ deployMaci_MiMC
    \/ deployMiMC
    \/ deployMaci_BatchUpdateStateTreeVerifier
    \/ deployBatchUpdateStateTreeVerifier
    \/ deployMaci_QuadVoteTallyVerifier
    \/ deployQuadVoteTallyVerifier
    \/ deployMaci_maxValues
    \/ deployMaci_MACI
    \/ deployMACI
    \/ main_writeAddresses
    \/ DeployRejects
    \/ processExit
    \/ deployVkRegistryContract_reset
    \/ deployVkRegistryContract_deploy
    \/ deployVkRegistry
    \/ deployTransaction_wait
    \/ deployVkRegistry_rejects
    \/ deployVkRegistryContract_store

Spec == Init /\ [][Next]_vars

\* Runs of the script with one re-invocation after a failed run.
NextRetry == Next \/ reinvoke

SpecRetry == Init /\ [][NextRetry]_vars

(***************************************************************************)
(* Properties.                                                             *)
(***************************************************************************)
Calls(artifact) == {i \in 1..Len(deployments) : deployments[i].artifact = artifact}

Returned(i) ==
    /\ deployments[i].status = "confirmed"
    /\ deployments[i].contractAddress \in DeployedAddresses

ReturnedBefore(artifact, i) == \E j \in Calls(artifact) : j < i /\ Returned(j)

MaciDependencies ==
    {"MiMC", "BatchUpdateStateTreeVerifier", "QuadVoteTallyVerifier", "SignUpTokenGatekeeper"}

\* C1: in a run of main, whatever the overrides and the failures, the MACI
\* deployment is issued only after the MiMC, BatchUpdateStateTreeVerifier,
\* QuadVoteTallyVerifier and gatekeeper deployments have each returned an
\* address.
C1_MaciAfterDependencies ==
    entry = "main" =>
        \A i \in Calls("MACI") : \A a \in MaciDependencies : ReturnedBefore(a, i)

C1_Witness == entry = "main" /\ Calls("MACI") # {}

\* C2: once a deployment has failed no further deployment is issued, and no
\* contract is deployed twice in a run.
C2_AbortWithoutRetry ==
    /\ \A i \in 1..Len(deployments) :
          deployments[i].status = "failed" => i = Len(deployments)
    /\ \A i, j \in 1..Len(deployments) :
          i # j => deployments[i].artifact # deployments[j].artifact

C2_Witness ==
    /\ pc = "rejected"
    /\ Len(deployments) >= 2
    /\ Last.status = "failed"
    /\ Last.artifact # "MACI"

ProxyDeployed == \E i \in Calls("ConstantInitialVoiceCreditProxy") : Returned(i)

\* C3: when the gatekeeper deployment fails, MACI is never deployed and the
\* run surfaces a manifest with exactly the token entry (and the proxy
\* entry, if the proxy was deployed).
C3_GatekeeperFailureManifest ==
    (entry = "main" /\ pc = "rejected" /\ Last.artifact = "SignUpTokenGatekeeper") =>
        /\ Calls("MACI") = {}
        /\ DOMAIN outputFile =
              {"SignUpToken"} \cup
              (IF ProxyDeployed THEN {"InitialVoiceCreditProxy"} ELSE {})
        /\ outputFile.SignUpToken = signUpTokenAddress

\* C4: with a token address passed as override, the token is never deployed
\* and the written manifest has a token entry equal to that address.
C4_TokenOverride ==
    (entry = "main" /\ args.signUpToken \in OverrideAddresses) =>
        /\ Calls("SignUpToken") = {}
        /\ pc = "done" =>
              /\ "SignUpToken" \in DOMAIN outputFile
              /\ outputFile.SignUpToken = args.signUpToken

\* C5: with no token address passed, the token is deployed exactly once,
\* before the gatekeeper, and the written manifest's token entry is the
\* address of that deployment.
C5_FreshToken ==
    (entry = "main" /\ args.signUpToken \notin OverrideAddresses) =>
        /\ \A g \in Calls("SignUpTokenGatekeeper") :
              /\ Cardinality(Calls("SignUpToken")) = 1
              /\ ReturnedBefore("SignUpToken", g)
        /\ pc = "done" =>
              /\ "SignUpToken" \in DOMAIN outputFile
              /\ \E t \in Calls("SignUpToken") :
                    outputFile.SignUpToken = deployments[t].contractAddress

\* C6: the proxy is deployed if and only if no proxy address is passed,
\* whatever the token flag is, and MACI is constructed with the passed proxy
\* address when there is one and with the deployed proxy's address otherwise.
C6_ProxySlotIndependent ==
    entry = "main" =>
        /\ Calls("ConstantInitialVoiceCreditProxy") # {} =>
              args.initialVoiceCreditProxy \notin OverrideAddresses
        /\ Calls("SignUpTokenGatekeeper") # {} =>
              (args.initialVoiceCreditProxy \notin OverrideAddresses
                  => Cardinality(Calls("ConstantInitialVoiceCreditProxy")) = 1)
        /\ \A i \in Calls("MACI") :
              IF args.initialVoiceCreditProxy \in OverrideAddresses
              THEN deployments[i].args[9] = args.initialVoiceCreditProxy
              ELSE \E p \in Calls("ConstantInitialVoiceCreditProxy") :
                      /\ Returned(p)
                      /\ deployments[i].args[9] = deployments[p].contractAddress

C6_Witness ==
    /\ entry = "main"
    /\ args.signUpToken \in OverrideAddresses
    /\ args.initialVoiceCreditProxy \notin OverrideAddresses
    /\ Calls("MACI") # {}

RequiredContracts ==
    {"SignUpToken", "InitialVoiceCreditProxy", "SignUpTokenGatekeeper", "MiMC",
     "BatchUpdateStateTreeVerifier", "QuadraticVoteTallyVerifier", "MACI"}

\* C7: a run that completes writes a manifest with one entry for each of
\* the seven contracts of the deployment.
C7_CompleteManifest == pc = "done" => DOMAIN outputFile = RequiredContracts

\* 2^d in decimal digits (little-endian), by d doublings
RECURSIVE DecPow2(_)
DecPow2(d) == IF d = 0 THEN <<1>> ELSE DecDoubleAdd(DecPow2(d - 1), 0)

\* ds - 1 in decimal digits, for ds >= 2
RECURSIVE DecSub1(_)
DecSub1(ds) ==
    IF Head(ds) > 0 THEN <<Head(ds) - 1>> \o Tail(ds)
    ELSE <<9>> \o DecSub1(Tail(ds))

\* the decimal numeral of 2^d - 1, d >= 1
Pow2Minus1(d) == DigitsToString(DecSub1(DecPow2(d)))

KeyStrings(raw) == [x |-> NatToString(raw[1]), y |-> NatToString(raw[2])]

\* C9: MACI is constructed with the public key passed to deployMaci,
\* whatever the private key is, and otherwise with the key derived from the
\* configured private key, which is the key the module derived from that
\* private key when it was loaded.
C9_CoordinatorKey ==
    \A i \in Calls("MACI") :
        IF params.coordinatorPubKey \in SuppliedPubKeys
        THEN deployments[i].args[10] = KeyStrings(params.coordinatorPubKey.rawPubKey)
        ELSE /\ deployments[i].args[10] = KeyStrings(GenPubKey(config.coordinatorPrivKey))
             /\ deployments[i].args[10] = KeyStrings(coordinatorPublicKey)

C9_Witness ==
    /\ entry = "deployMaci"
    /\ params.coordinatorPubKey \in SuppliedPubKeys
    /\ Calls("MACI") # {}

RunDepths ==
    IF entry = "main" THEN {config.stateTreeDepth, config.messageTreeDepth}
    ELSE {params.stateTreeDepth, params.messageTreeDepth}

\* C10: a run with a tree depth that is zero or negative issues no
\* deployment at all.
C10_InvalidDepthDeploysNothing ==
    (\E d \in RunDepths : d <= 0) => deployments = <<>>

\* C11: whatever the store held before, after the reset and
\* storeContractAddress("VkRegistry", address) the store read back holds
\* exactly the entry VkRegistry -> address of the deployed contract.
C11_StoreHoldsOnlyVkRegistry ==
    (entry = "deployVkRegistryContract" /\ pc = "returned") =>
        /\ vkRegistry \in DeployedAddresses
        /\ contractAddressesStore.exists
        /\ contractAddressesStore.json = {<<"VkRegistry", vkRegistry>>}

C11_Witness ==
    /\ entry = "deployVkRegistryContract"
    /\ pc = "returned"
    /\ Cardinality(priorStore.json) >= 2

\* C12: a re-invocation after a failed run, with the failed run's addresses
\* passed back as overrides, deploys none of the contracts the failed run
\* had already confirmed.
C12_RetryDeploysNothingTwice ==
    \A i \in 1..Len(deployments) : \A j \in 1..Len(earlier) :
        earlier[j].status = "confirmed" =>
            deployments[i].artifact # earlier[j].artifact

RunFailed == deployments # <<>> /\ Last.status = "failed"

\* C13: when a deployment of the run has failed, the process exits with a
\* non-zero exit code.
C13_FailureExitsNonZero ==
    (entry = "main" /\ pc = "exited" /\ RunFailed) => exitCode # 0

\* the address returned by the deployment of a contract in this run
IsAddressOf(address, artifact) ==
    \E j \in Calls(artifact) : Returned(j) /\ address = deployments[j].contractAddress

ResolvedToken(address) ==
    IF args.signUpToken \in OverrideAddresses THEN address = args.signUpToken
    ELSE IsAddressOf(address, "SignUpToken")

ResolvedProxy(address) ==
    IF args.initialVoiceCreditProxy \in OverrideAddresses
    THEN address = args.initialVoiceCreditProxy
    ELSE IsAddressOf(address, "ConstantInitialVoiceCreditProxy")

\* C14: the gatekeeper is constructed with the resolved token address and
\* nothing else; MACI is linked with this run's MiMC address and constructed
\* with this run's gatekeeper, BatchUpdateStateTreeVerifier and
\* QuadVoteTallyVerifier addresses, in that order, and with the resolved
\* proxy address.
C14_AddressesThreaded ==
    entry = "main" =>
        /\ \A g \in Calls("SignUpTokenGatekeeper") :
              /\ Len(deployments[g].args) = 1
              /\ ResolvedToken(deployments[g].args[1])
        /\ \A i \in Calls("MACI") :
              /\ DOMAIN deployments[i].libraries = {"MiMC"}
              /\ IsAddressOf(deployments[i].libraries.MiMC, "MiMC")
              /\ IsAddressOf(deployments[i].args[4], "SignUpTokenGatekeeper")
              /\ IsAddressOf(deployments[i].args[5], "BatchUpdateStateTreeVerifier")
              /\ IsAddressOf(deployments[i].args[6], "QuadVoteTallyVerifier")
              /\ ResolvedProxy(deployments[i].args[9])

C14_Witness ==
    /\ entry = "main"
    /\ args = NoArgs
    /\ Calls("MACI") # {}

Recorded(address) ==
    \/ outputFile # NoFile /\ \E name \in DOMAIN outputFile : outputFile[name] = address
    \/ \E e \in contractAddressesStore.json : e[2] = address

\* C15: whenever a further deployment is issued, the address of every
\* deployment confirmed before it is already in the persisted store.
C15_IncrementalPersistence ==
    \A i \in 1..Len(deployments) : \A j \in 1..(i - 1) :
        deployments[j].status = "confirmed" =>
            Recorded(deployments[j].contractAddress)

\* C16: the reset of deployVkRegistryContract succeeds whether or not a
\* store file exists: the run is never aborted before its deployment, and
\* after the reset the store is empty and a store that existed is at the
\* backup path with the same contents.
C16_ResetAlwaysSucceeds ==
    entry = "deployVkRegistryContract" =>
        /\ pc = "rejected" => deployments # <<>>
        /\ pc = "deployVkRegistryContract_deploy" =>
              /\ contractAddressesStore = StoreFile({})
              /\ priorStore.exists => oldContractAddressesStore = priorStore

\* C17: an archive that is present at the backup path is never replaced.
C17_ArchiveNeverDestroyed ==
    [][oldContractAddressesStore.exists =>
          oldContractAddressesStore' = oldContractAddressesStore]_vars

InFlight == {i \in 1..Len(deployments) : deployments[i].status \in {"pending", "submitted"}}

DeploymentPlan ==
    <<"SignUpToken", "ConstantInitialVoiceCreditProxy", "SignUpTokenGatekeeper", "MiMC",
      "BatchUpdateStateTreeVerifier", "QuadVoteTallyVerifier", "MACI">>

\* C18: at most one deployment is in flight at any time, and a run of main
\* without overrides issues the deployments in the order token, proxy,
\* gatekeeper, MiMC, BatchUpdateStateTreeVerifier, QuadVoteTallyVerifier,
\* MACI, each after the one before it has returned.
C18_SequentialPipeline ==
    /\ Cardinality(InFlight) <= 1
    /\ (entry = "main" /\ args.signUpToken \notin OverrideAddresses
                       /\ args.initialVoiceCreditProxy \notin OverrideAddresses) =>
          /\ Len(deployments) <= Len(DeploymentPlan)
          /\ \A i \in 1..Len(deployments) :
                /\ deployments[i].artifact = DeploymentPlan[i]
                /\ i < Len(deployments) => Returned(i)

C18_Witness ==
    /\ entry = "main"
    /\ args = NoArgs
    /\ Len(deployments) = Len(DeploymentPlan)
    /\ InFlight = {Len(deployments)}

\* C19: when the VkRegistry deployment or its confirmation fails, the store
\* is the empty manifest of the reset, without a VkRegistry entry, and the
\* store found at the start is at the backup path unchanged.
C19_NothingStoredOnFailure ==
    (entry = "deployVkRegistryContract" /\ pc = "rejected" /\ deployments # <<>>) =>
        /\ contractAddressesStore = StoreFile({})
        /\ oldContractAddressesStore = priorStore

C19_Witness ==
    /\ entry = "deployVkRegistryContract"
    /\ pc = "rejected"
    /\ deployments # <<>>
    /\ deployments[1].contractAddress \in DeployedAddresses
    /\ priorStore.json # {}

====
